---------------------------- MODULE Spec2Model ----------------------------
(***************************************************************************)
(* FireCastX front-end: the App component in its four stateful versions.  *)
(*                                                                         *)
(*   "myapp"  my-app/src/App.jsx   imperative globe, intro, timeline,      *)
(*                                 OSM/SAT visibility switch               *)
(*   "p000"   unnamed/part_000     declarative globe, intro, timeline      *)
(*   "p004"   unnamed/part_004     imperative globe, layer-list switch,    *)
(*                                 camera buttons                          *)
(*   "p005"   unnamed/part_005     declarative globe, intro, timeline,     *)
(*                                 base switch, camera buttons             *)
(*                                                                         *)
(* Times are milliseconds counted from 2025-11-01T00:00:00Z, so that the   *)
(* 24-hour timeline can straddle the America/Chicago change from CDT to    *)
(* CST on 2025-11-02 07:00Z.  Longitudes and latitudes are micro-degrees,  *)
(* heights are metres.                                                     *)
(***************************************************************************)
EXTENDS Integers, Sequences, FiniteSets

VARIABLES
    variant,        \* which version of App is running
    pc,             \* "unmounted" | "rendered" (committed, effects pending) | "ready"
    mounts,         \* number of mounts so far
    effectRuns,     \* number of runs of the setup so far; the n-th run creates globe n
    tz,             \* the browser's local time zone
    showIntro,      \* useState(true)
    now,            \* useMemo: mount time snapped to the local hour
    end,            \* useMemo: now + 24 h
    sliderIdx,      \* useState(0)
    selectedDate,   \* useMemo: now + sliderIdx h
    globeRef,       \* globeRef.current
    globus,         \* useState(null) of the imperative versions
    osmRef,         \* osmRef.current (my-app)
    satRef,         \* satRef.current (my-app)
    base,           \* useState("OSM"): base / currentLayer
    globeLayers,    \* layers attached to the live globe
    visible,        \* visibility flag of the OSM and satellite layer objects last constructed
    camera,         \* view the globe's camera was last sent to
    zoom,           \* net zoomIn() - zoomOut() calls since the camera was sent to that view
    listeners,      \* "resize" listeners on window, <<name, mount>>
    destroyed,      \* globes whose destroy() has run
    innerHeight,    \* window.innerHeight
    vh,             \* the --vh custom property of the document element
    threw,          \* the last handler ended in an uncaught TypeError
    last            \* the last operation taken

vars == <<variant, pc, mounts, effectRuns, osmRef, satRef, tz, showIntro, now, end, sliderIdx, selectedDate,
          globeRef, globus, base, globeLayers, visible, camera, zoom,
          listeners, destroyed, innerHeight, vh, threw, last>>

hooks == <<showIntro, now, end, sliderIdx, selectedDate, base>>
clockVars == <<tz, now, end>>
refVars == <<effectRuns, osmRef, satRef>>
globeVars == <<globeRef, globus, globeLayers, visible, camera, zoom, destroyed, refVars>>
windowVars == <<listeners, innerHeight, vh>>

----------------------------------------------------------------------------
(* Bounds of the model *)

MaxMounts == 2      \* mounts of the component in one behaviour
MaxZoom == 1        \* |zoom| is capped here
Overdrag == 1       \* how far past either end the slider thumb can be dragged

Variants == {"myapp", "p000", "p004", "p005"}
Heights == {600, 800}

----------------------------------------------------------------------------
(* Which version renders what *)

HasIntro(v) == v \in {"myapp", "p000", "p005"}
HasTimeline(v) == v \in {"myapp", "p000", "p005"}
HasBaseSwitch(v) == v \in {"myapp", "p004", "p005"}
HasCamera(v) == v \in {"myapp", "p004", "p005"}
Imperative(v) == v \in {"myapp", "p004"}

Null == [kind |-> "null"]
ContainerDiv == [kind |-> "div"]
GlobeObj(n) == [kind |-> "globe", id |-> n]
LayerObj(l, n) == [kind |-> "layer", provider |-> l, globe |-> n]

----------------------------------------------------------------------------
(* Time *)

HOUR_MS == 3600000

\* 2025-11-02T07:00:00Z, when America/Chicago goes from CDT to CST
ChicagoFallBack == 31 * HOUR_MS

Zones == {"America/Chicago", "UTC", "Asia/Kolkata"}

\* minutes east of UTC of zone z at instant t
TzOffsetMin(z, t) ==
    CASE z = "America/Chicago" -> IF t < ChicagoFallBack THEN -300 ELSE -360
      [] z = "UTC" -> 0
      [] z = "Asia/Kolkata" -> 330

\* the offsets zone z has within the modelled days, earliest first
TzOffsets(z) ==
    IF z = "America/Chicago" THEN <<-300, -360>> ELSE <<TzOffsetMin(z, 0)>>

LocalTime(z, t) == t + TzOffsetMin(z, t) * 60000

\* ECMAScript UTC(t): a repeated wall-clock time is read with the offset in
\* force before the transition
UTCOfLocal(z, wall) ==
    LET offs == TzOffsets(z)
        u1 == wall - offs[1] * 60000
    IN  IF TzOffsetMin(z, u1) = offs[1] THEN u1
        ELSE wall - offs[Len(offs)] * 60000

\* d.setMinutes(0, 0, 0): minutes, seconds and ms of the LOCAL time to zero
SetMinutesZero(z, t) ==
    LET wall == LocalTime(z, t)
    IN  UTCOfLocal(z, wall - (wall % HOUR_MS))

\* mount instants the model tries: 2025-11-02T00:15Z, whose 24 hours span the
\* Chicago transition, and 07:45:00.001Z, inside the repeated 01:xx Chicago hour
ClockInstants == { 24 * HOUR_MS + 900000, 31 * HOUR_MS + 2700001 }

\* the mounts the model tries, <<instant, browser zone>>: the first instant in
\* the zone on the hour and in the one half an hour off, the second in the
\* Chicago zone and in the zone on the hour
ClockCases ==
    { c \in ClockInstants \X Zones :
        \/ c[1] = 24 * HOUR_MS + 900000 /\ c[2] \in {"UTC", "Asia/Kolkata"}
        \/ c[1] = 31 * HOUR_MS + 2700001 /\ c[2] \in {"America/Chicago", "UTC"} }

\* Intl.DateTimeFormat("en-US", {timeZone: TZ, ..., hour12: false}).format(d):
\* the date and time fields of d on the America/Chicago wall clock
TZ == "America/Chicago"

fmtDateTime(d) ==
    LET wall == LocalTime(TZ, d)
    IN  [ day    |-> wall \div (24 * HOUR_MS),
          hour   |-> (wall \div HOUR_MS) % 24,
          minute |-> (wall \div 60000) % 60 ]

\* formatToParts(d).find(timeZoneName)?.value
fmtTZShort(d) == IF TzOffsetMin(TZ, d) = -300 THEN "CDT" ELSE "CST"

----------------------------------------------------------------------------
(* The timeline's range input *)

sliderMin == 0
maxIdx == 24

\* seeded fault: a range input that does not clamp the thumb position
RangeValueUnclamped(pos) == pos

\* value sanitisation of <input type="range" min max step=1>: the thumb
\* position is clamped to [min, max]
RangeValue(pos) ==
    IF pos < sliderMin THEN sliderMin ELSE IF pos > maxIdx THEN maxIdx ELSE pos

\* e.target.value is the decimal string of the value, most significant digit first
ValueString(n) == IF n < 10 THEN <<n>> ELSE <<n \div 10, n % 10>>

\* Number(e.target.value)
RECURSIVE Number(_)
Number(s) == IF s = <<>> THEN 0 ELSE 10 * Number(SubSeq(s, 1, Len(s) - 1)) + s[Len(s)]

ThumbPositions == (sliderMin - Overdrag) .. (maxIdx + Overdrag)

\* seeded fault: the selected time runs one step ahead of the slider
SelectedDateAhead(n, idx) == n + (idx + 1) * HOUR_MS

SelectedDateOf(n, idx) == n + idx * HOUR_MS
EndOf(n) == n + 24 * HOUR_MS

----------------------------------------------------------------------------
(* Views and layers *)

US_VIEW == [lon |-> -98583000, lat |-> 39833000, height |-> 4500000]
START_VIEW == [lon |-> -119749780, lat |-> 37082052, height |-> 2000000]
ORIGIN_VIEW == [lon |-> 0, lat |-> 0, height |-> 4500000]
NoView == [lon |-> 0, lat |-> 0, height |-> 0]

\* the view the globe is given when it is created
StartViewOf(v) == IF v = "p005" THEN START_VIEW ELSE US_VIEW

\* the argument of flyLonLat in resetCompass
ResetViewOf(v) ==
    CASE v = "myapp" -> US_VIEW
      [] v = "p004" -> ORIGIN_VIEW
      [] v = "p005" -> START_VIEW
      [] OTHER -> NoView

Providers == {"OSM", "SAT"}
AllVisible == [l \in Providers |-> TRUE]

\* part_005: baseLayers = base === "OSM" ? [osmLayer] : [satLayer]
baseLayers(b) == IF b = "OSM" THEN {"OSM"} ELSE {"SAT"}

\* the layers prop of the declarative globe
LayersProp(v, b) == IF v = "p005" THEN baseLayers(b) ELSE {"OSM"}

\* the layers the globe draws
Displayed == {l \in globeLayers : visible[l]}

\* the globe the camera buttons reach
GlobeHandle == IF Imperative(variant) THEN globus ELSE globeRef

\* seeded fault: the overlay flag starts cleared, useState(false)
InitialShowIntroOff == FALSE

InitialShowIntro == TRUE
InitialSliderIdx == 0
InitialBase == "OSM"

----------------------------------------------------------------------------
(* Initial state: the page before App is mounted *)

Init ==
    /\ variant \in Variants
    /\ tz = "UTC"
    /\ pc = "unmounted"
    /\ mounts = 0
    /\ effectRuns = 0
    /\ osmRef = Null
    /\ satRef = Null
    /\ showIntro = FALSE
    /\ now = 0
    /\ end = 0
    /\ sliderIdx = 0
    /\ selectedDate = 0
    /\ globeRef = Null
    /\ globus = Null
    /\ base = "OSM"
    /\ globeLayers = {}
    /\ visible = AllVisible
    /\ camera = NoView
    /\ zoom = 0
    /\ listeners = {}
    /\ destroyed = {}
    /\ innerHeight = 800
    /\ vh = 0
    /\ threw = FALSE
    /\ last = "init"

Mounted == pc \in {"rendered", "ready"}

----------------------------------------------------------------------------
(* Mount: the first render of App; every hook takes its initial value *)

Mount ==
    /\ pc = "unmounted"
    /\ mounts < MaxMounts
    /\ pc' = "rendered"
    /\ mounts' = mounts + 1
    /\ showIntro' = (HasIntro(variant) /\ InitialShowIntro)
    /\ IF HasTimeline(variant)
         THEN \E c \in ClockCases :
                 tz' = c[2] /\ now' = SetMinutesZero(c[2], c[1])
         ELSE tz' = tz /\ now' = 0
    /\ end' = IF HasTimeline(variant) THEN EndOf(now') ELSE 0
    /\ sliderIdx' = InitialSliderIdx
    /\ selectedDate' = IF HasTimeline(variant)
                         THEN SelectedDateOf(now', InitialSliderIdx) ELSE 0
    /\ globeRef' = IF Imperative(variant) THEN ContainerDiv ELSE Null
    /\ globus' = Null
    /\ osmRef' = Null
    /\ satRef' = Null
    /\ base' = InitialBase
    /\ globeLayers' = {}
    /\ camera' = NoView
    /\ zoom' = 0
    /\ threw' = FALSE
    /\ last' = "mount"
    /\ UNCHANGED <<variant, effectRuns, visible, listeners, destroyed, innerHeight, vh>>

\* layers the imperative globe is constructed with
ConstructedLayers(v) == IF v = "myapp" THEN {"OSM", "SAT"} ELSE {"OSM"}

\* seeded fault: the effect forgets sat.setVisibility(false)
ConstructedVisibilityAll(v) == AllVisible

\* sat.setVisibility(false) after construction (my-app only)
ConstructedVisibility(v) ==
    IF v = "myapp" THEN [l \in Providers |-> l = "OSM"] ELSE AllVisible

\* listeners the effects of version v add to window
EffectListeners(v) ==
    CASE v = "myapp" -> {"handleResize", "onResizeVH"}
      [] v = "p004" -> {"handleResize"}
      [] OTHER -> {"onResize"}

\* whether version v calls its --vh updater once while setting up
SetsVh(v) == v # "p004"

\* seeded fault: the cleanup leaves the --vh listener on window
CleanupRemovesResizeOnly(v) == {"handleResize"}

\* the listeners the cleanup of version v removes again
CleanupRemoves(v) ==
    CASE v = "myapp" -> {"handleResize", "onResizeVH"}
      [] v = "p004" -> {"handleResize"}
      [] OTHER -> {"onResize"}

\* window's listeners once the cleanup of the latest setup run is done
CleanedUp(ls) ==
    {l \in ls : ~(l[2] = effectRuns /\ l[1] \in CleanupRemoves(variant))}

\* seeded fault: setGlobus keeps a globe that is already stored
StoredGlobusKeepsFirst(old, created) == IF old = Null THEN created ELSE old

\* setGlobus(globeInstance)
StoredGlobus(old, created) == created

\* the body of the setup: globe id is built on the container, kept are the
\* listeners window had before
SetUp(id, kept) ==
    /\ globeRef # Null
    /\ effectRuns' = id
    /\ globus' = StoredGlobus(globus, GlobeObj(id))
    /\ osmRef' = IF variant = "myapp" THEN LayerObj("OSM", id) ELSE osmRef
    /\ satRef' = IF variant = "myapp" THEN LayerObj("SAT", id) ELSE satRef
    /\ globeLayers' = ConstructedLayers(variant)
    /\ visible' = ConstructedVisibility(variant)
    /\ camera' = StartViewOf(variant)
    /\ zoom' = 0
    /\ listeners' = kept \cup {<<n, id>> : n \in EffectListeners(variant)}
    /\ vh' = IF SetsVh(variant) THEN innerHeight ELSE vh
    /\ threw' = FALSE

\* useEffect(() => {...}, []) of the imperative versions
SetupEffect ==
    /\ pc = "rendered"
    /\ Imperative(variant)
    /\ pc' = "ready"
    /\ SetUp(effectRuns + 1, listeners)
    /\ last' = "effect"
    /\ UNCHANGED <<variant, tz, mounts, hooks, globeRef, destroyed, innerHeight>>

\* an immediate unmount/remount of the effect, as a development build does
\* right after the first setup: the cleanup runs, then the setup again, on
\* the same component and before anything is rendered or handled in between
StrictReplay ==
    /\ pc = "ready"
    /\ last = "effect"
    /\ Imperative(variant)
    /\ destroyed' = destroyed \cup {effectRuns}
    /\ SetUp(effectRuns + 1, CleanedUp(listeners))
    /\ last' = "replay"
    /\ UNCHANGED <<variant, pc, tz, mounts, hooks, globeRef, innerHeight>>

\* the declarative versions: the wrapper creates the globe from its props and
\* stores it in the forwarded ref, then App's own resize effect runs
DeclarativeEffects ==
    /\ pc = "rendered"
    /\ ~Imperative(variant)
    /\ pc' = "ready"
    /\ effectRuns' = effectRuns + 1
    /\ globeRef' = GlobeObj(effectRuns')
    /\ globeLayers' = LayersProp(variant, base)
    /\ visible' = AllVisible
    /\ camera' = StartViewOf(variant)
    /\ zoom' = 0
    /\ listeners' = listeners \cup {<<n, effectRuns'>> : n \in EffectListeners(variant)}
    /\ vh' = innerHeight
    /\ threw' = FALSE
    /\ last' = "effect"
    /\ UNCHANGED <<variant, tz, mounts, hooks, globus, osmRef, satRef, destroyed,
                   innerHeight>>

\* the effects' cleanup functions, run when App is unmounted
Unmount ==
    /\ pc = "ready"
    /\ pc' = "unmounted"
    /\ listeners' = CleanedUp(listeners)
    /\ destroyed' = destroyed \cup {effectRuns}
    /\ globeLayers' = {}
    /\ globeRef' = Null
    /\ threw' = FALSE
    /\ last' = "unmount"
    /\ camera' = NoView
    /\ zoom' = 0
    /\ UNCHANGED <<variant, tz, mounts, hooks, globus, refVars, visible, innerHeight, vh>>

----------------------------------------------------------------------------
(* The intro overlay *)

IntroTargets ==
    {"intro", "intro-card", "intro-logo", "intro-title", "intro-subtitle", "intro-cta"}

\* the elements a click on target passes through, innermost first
BubblePath(target) ==
    CASE target = "intro" -> <<"intro">>
      [] target = "intro-card" -> <<"intro-card", "intro">>
      [] OTHER -> <<target, "intro-card", "intro">>

\* onClick={(e) => e.stopPropagation()} on the card
StopsPropagation(el) == el = "intro-card"

\* whether the click on target gets to the onClick of element el
Reaches(target, el) ==
    LET path == BubblePath(target)
    IN  \E i \in 1..Len(path) :
          /\ path[i] = el
          /\ \A j \in 1..(i - 1) : ~StopsPropagation(path[j])

\* a click somewhere on the overlay, which is rendered only while showIntro
IntroClick(target) ==
    /\ Mounted
    /\ HasIntro(variant)
    /\ showIntro
    /\ showIntro' = IF Reaches(target, "intro") THEN FALSE ELSE showIntro
    /\ threw' = FALSE
    /\ last' = "introClick"
    /\ UNCHANGED <<variant, pc, mounts, tz, now, end, sliderIdx, selectedDate, base,
                   globeVars, windowVars>>

----------------------------------------------------------------------------
(* The timeline *)

\* onChange={(e) => setSliderIdx(Number(e.target.value))}
SliderChange(pos) ==
    /\ Mounted
    /\ HasTimeline(variant)
    /\ sliderIdx' = Number(ValueString(RangeValue(pos)))
    /\ selectedDate' = SelectedDateOf(now, sliderIdx')
    /\ threw' = FALSE
    /\ last' = "slider"
    /\ UNCHANGED <<variant, pc, mounts, tz, showIntro, now, end, base,
                   globeVars, windowVars>>

----------------------------------------------------------------------------
(* The base-layer switch *)

\* seeded fault: the buttons lose their disabled attribute
DisabledNever(button) == FALSE

\* disabled={base === "OSM"} / disabled={base === "SAT"}
Disabled(button) == base = button

\* seeded fault: switchLayer without its early return
SwitchProceedsAlways(v) == TRUE

\* my-app: if (!globus || !osmRef.current || !satRef.current) return;
\* part_004: if (!globus) return;   part_005 calls setBase directly
SwitchProceeds(v) ==
    CASE v = "p005" -> TRUE
      [] v = "myapp" -> globus # Null /\ osmRef # Null /\ satRef # Null
      [] OTHER -> globus # Null

\* what the switch does to the globe's layer list
SwitchedLayers(v, b) ==
    CASE v = "p004" -> IF b = "OSM" THEN {"OSM"} ELSE {}
      [] v = "p005" -> IF pc = "ready" THEN baseLayers(b) ELSE globeLayers
      [] OTHER -> globeLayers

\* what the switch does to the layers' visibility flags
SwitchedVisibility(v, b) ==
    IF v = "myapp" THEN [l \in Providers |-> l = b] ELSE visible

\* a click on the OSM or the SAT button; a disabled button takes no click
PressBase(b) ==
    /\ Mounted
    /\ HasBaseSwitch(variant)
    /\ ~Disabled(b)
    /\ IF SwitchProceeds(variant)
         THEN /\ globeLayers' = SwitchedLayers(variant, b)
              /\ visible' = SwitchedVisibility(variant, b)
              /\ base' = b
         ELSE UNCHANGED <<globeLayers, visible, base>>
    /\ threw' = FALSE
    /\ last' = "pressBase"
    /\ UNCHANGED <<variant, pc, mounts, tz, showIntro, now, end, sliderIdx,
                   selectedDate, globeRef, globus, camera, zoom, destroyed,
                   refVars, windowVars>>

----------------------------------------------------------------------------
(* Camera controls *)

\* seeded fault: the camera is called without the null check
ProceedsUnchecked(h) == TRUE

\* globus?.planet?.camera?.f() / if (!globus) return; / getGlobe()?.planet?...
\* the call goes ahead only on a globe
Proceeds(h) == h # Null

Abs(n) == IF n < 0 THEN -n ELSE n

\* one camera control: dz is the zoom step, view the flyLonLat target
\* (NoView for none), which also sets the camera's height anew; a method call
\* on null is a TypeError
CameraControl(name, dz, view) ==
    /\ Mounted
    /\ HasCamera(variant)
    /\ Abs(zoom + dz) <= MaxZoom
    /\ LET h == GlobeHandle
       IN  IF ~Proceeds(h)
             THEN threw' = FALSE /\ UNCHANGED <<camera, zoom>>
             ELSE IF h = Null
               THEN threw' = TRUE /\ UNCHANGED <<camera, zoom>>
               ELSE /\ threw' = FALSE
                    /\ zoom' = IF view = NoView THEN zoom + dz ELSE 0
                    /\ camera' = IF view = NoView THEN camera ELSE view
    /\ last' = name
    /\ UNCHANGED <<variant, pc, mounts, tz, hooks, globeRef, globus, globeLayers,
                   visible, destroyed, refVars, windowVars>>

zoomIn == CameraControl("zoomIn", 1, NoView)
zoomOut == CameraControl("zoomOut", -1, NoView)
resetCompass == CameraControl("resetCompass", 0, ResetViewOf(variant))

----------------------------------------------------------------------------
(* Window resize *)

Registered(name) == \E l \in listeners : l[1] = name

\* the window is resized to height h and fires "resize"
Resize(h) ==
    /\ h # innerHeight
    /\ innerHeight' = h
    /\ vh' = IF Registered("onResizeVH") \/ Registered("onResize") THEN h ELSE vh
    /\ threw' = FALSE
    /\ last' = "resize"
    /\ UNCHANGED <<variant, pc, mounts, tz, hooks, globeRef, globus, globeLayers,
                   visible, camera, zoom, listeners, destroyed, refVars>>

----------------------------------------------------------------------------

Next ==
    \/ Mount
    \/ SetupEffect
    \/ StrictReplay
    \/ DeclarativeEffects
    \/ Unmount
    \/ \E target \in IntroTargets : IntroClick(target)
    \/ \E pos \in ThumbPositions : SliderChange(pos)
    \/ \E b \in Providers : PressBase(b)
    \/ zoomIn
    \/ zoomOut
    \/ resetCompass
    \/ \E h \in Heights : Resize(h)

Spec == Init /\ [][Next]_vars

TypeOK ==
    /\ variant \in Variants
    /\ pc \in {"unmounted", "rendered", "ready"}
    /\ sliderIdx \in Int
    /\ base \in Providers
    /\ globeLayers \subseteq Providers

----------------------------------------------------------------------------
(* Properties *)

CameraOps == {"zoomIn", "zoomOut", "resetCompass"}

\* C1: in every version with an intro overlay the overlay is shown right after
\* mount, and within one mount a dismissed overlay is never shown again,
\* whatever slider, base-switch, camera or resize step follows.
IntroDismissedForGood ==
    [][ /\ (HasIntro(variant) /\ pc = "unmounted" /\ pc' = "rendered") => showIntro'
        /\ (HasIntro(variant) /\ Mounted /\ mounts' = mounts /\ ~showIntro) => ~showIntro'
      ]_vars

IntroDismissedThenUsed ==
    /\ HasIntro(variant) /\ pc = "ready" /\ ~showIntro
    /\ sliderIdx > 0 /\ last = "resize"

\* C2: while the overlay is shown, a click on any element of it, the card and
\* its logo, title and text included, leaves showIntro false.
ClickAnywhereDismisses ==
    [][ (HasIntro(variant) /\ showIntro /\ last' = "introClick") => ~showIntro' ]_vars

\* C3: sliderIdx is always one of the 25 integers 0..24, it is 0 right after
\* mount, and every slider change leaves it in that range.
SliderIdxInRange ==
    /\ sliderIdx \in 0..24
    /\ Cardinality({Number(ValueString(RangeValue(p))) : p \in ThumbPositions}) = 25
    /\ last = "mount" => sliderIdx = 0

SliderAtRightEdge == HasTimeline(variant) /\ last = "slider" /\ sliderIdx = 24

\* C4: selectedDate = now + sliderIdx * 3,600,000 ms, lies between now and end,
\* is the left label at position 0 and the right label, now + 24 h, at 24.
SelectedDateTracksSlider ==
    (HasTimeline(variant) /\ Mounted) =>
        /\ selectedDate = now + sliderIdx * 3600000
        /\ now <= selectedDate /\ selectedDate <= end
        /\ end = now + 24 * 3600000
        /\ sliderIdx = 0 => fmtDateTime(selectedDate) = fmtDateTime(now)
        /\ sliderIdx = 24 => fmtDateTime(selectedDate) = fmtDateTime(end)

SelectedDateAtEnd ==
    /\ HasTimeline(variant) /\ Mounted /\ last = "slider"
    /\ selectedDate = end /\ selectedDate > now

\* C5: in every version with the OSM/SAT switch, once the globe exists it
\* draws exactly one base layer, the one the selected base names.
OneBaseLayerShown ==
    (HasBaseSwitch(variant) /\ pc = "ready") => Displayed = {base}

\* C6: nothing survives an unmount: a mount gives every hook its initial value
\* whatever the earlier mount left behind, and the globe then set up draws the
\* OSM layer and hides the satellite layer.
FreshMountIsInitial ==
    [][ /\ (pc = "unmounted" /\ pc' = "rendered") =>
              /\ HasIntro(variant) => showIntro'
              /\ sliderIdx' = 0
              /\ base' = "OSM"
              /\ globus' = Null
              /\ HasTimeline(variant) => selectedDate' = now'
        /\ (pc = "rendered" /\ pc' = "ready" /\ Imperative(variant)) =>
              /\ base' = "OSM"
              /\ Displayed' = {"OSM"}
              /\ globeLayers' \ Displayed' = ConstructedLayers(variant) \ {"OSM"}
      ]_vars

\* the second mount of my-app, whose first mount ended on the satellite base
RemountedAfterSat ==
    /\ variant = "myapp" /\ mounts = 2 /\ last = "mount"
    /\ visible["SAT"] /\ ~visible["OSM"]
    /\ showIntro /\ sliderIdx = 0 /\ base = "OSM"

\* C7: zoomIn, zoomOut and resetCompass leave showIntro, sliderIdx, the base
\* and the layers alone, and with no globe to call they change nothing and
\* raise no error.
CameraControlsOnlyMoveCamera ==
    [][ (last' \in CameraOps) =>
          /\ UNCHANGED <<showIntro, sliderIdx, base, visible, globeLayers>>
          /\ ~threw'
          /\ (GlobeHandle = Null) => UNCHANGED <<camera, zoom>>
      ]_vars

CameraCalledWithoutGlobe ==
    /\ last \in CameraOps /\ pc = "rendered" /\ GlobeHandle = Null /\ ~threw

\* C8: the reset-view control sends the camera to the view the globe was given
\* when it was created, in every version with the control.
ResetFliesToStartView ==
    (HasCamera(variant) /\ pc = "ready" /\ last = "resetCompass") =>
        camera = StartViewOf(variant)

\* C9: every time the timeline shows, the two labels and the selected time of
\* each of the 25 positions, has minute 00 on the Dallas clock, whatever the
\* mount instant and the browser's zone.
TimelineOnTheHour ==
    (HasTimeline(variant) /\ Mounted) =>
        /\ fmtDateTime(now).minute = 0
        /\ fmtDateTime(end).minute = 0
        /\ \A i \in 0..24 : fmtDateTime(SelectedDateOf(now, i)).minute = 0

EnabledButtons == {b \in Providers : ~Disabled(b)}

\* C10 as claimed: in my-app and part_005 exactly the button of the other base
\* is enabled, and every accepted press changes the selected base.
EveryPressSwitchesBase ==
    [][ (variant \in {"myapp", "p005"} /\ Mounted) =>
          /\ EnabledButtons = Providers \ {base}
          /\ last' = "pressBase" => base' # base
      ]_vars

\* C10: in my-app and part_005 exactly the button of the other base is
\* enabled; an accepted press changes the selected base, in my-app once globus
\* is stored (before that it leaves the base as it is); so the selected base
\* starts at "OSM" and every change of it goes to the other base.
PressSwitchesBaseOnceGlobeStored ==
    [][ (variant \in {"myapp", "p005"}) =>
          /\ Mounted =>
               /\ EnabledButtons = Providers \ {base}
               /\ Cardinality(EnabledButtons) = 1
          /\ (Mounted /\ last' = "pressBase" /\ (variant = "p005" \/ globus # Null))
                => base' # base
          /\ (Mounted /\ last' = "pressBase" /\ variant = "myapp" /\ globus = Null)
                => base' = base
          /\ (pc = "unmounted" /\ pc' = "rendered") => base' = "OSM"
          /\ (Mounted /\ mounts' = mounts /\ base' # base)
                => (last' = "pressBase" /\ {base, base'} = Providers)
      ]_vars

SwitchedThereAndBack ==
    /\ variant = "myapp" /\ pc = "ready" /\ last = "pressBase"
    /\ base = "OSM" /\ Displayed = {"OSM"}

\* the guard of switchLayer fails: no globe stored, or in my-app a layer ref unset
SwitchGuardFails ==
    \/ globus = Null
    \/ variant = "myapp" /\ (osmRef = Null \/ satRef = Null)

\* C11: in the imperative versions a switchLayer call made before the globe is
\* stored changes neither the selected base nor any layer's visibility nor
\* the layer list, so the base is still "OSM", with the OSM button disabled
\* and the SAT button enabled, when the globe comes up showing OSM.
SwitchBeforeGlobeIsNoOp ==
    [][ Imperative(variant) =>
          /\ (Mounted /\ SwitchGuardFails /\ last' = "pressBase")
                => UNCHANGED <<base, visible, globeLayers, globus, osmRef, satRef>>
          /\ (Mounted /\ SwitchGuardFails)
                => (base = "OSM" /\ EnabledButtons = {"SAT"})
          /\ (pc = "rendered" /\ pc' = "ready")
                => (Displayed' = {base'} /\ EnabledButtons' = Providers \ Displayed')
      ]_vars

SwitchPressedBeforeGlobe ==
    /\ Imperative(variant) /\ pc = "rendered" /\ last = "pressBase"
    /\ globus = Null /\ base = "OSM" /\ globeLayers = {}

\* globes created and not destroyed
LiveGlobes == (1..effectRuns) \ destroyed

\* the resize listeners App has on window
AppListeners == {l \in listeners : l[1] \in EffectListeners(variant)}

\* C12 as claimed: in my-app, after unmount no App resize listener is left and
\* every globe created is destroyed, and while mounted there are exactly two
\* App resize listeners and exactly one live globe.
CleanupUndoesSetupWhileMounted ==
    (variant = "myapp") =>
        /\ pc = "unmounted" => (AppListeners = {} /\ LiveGlobes = {})
        /\ Mounted => (Cardinality(AppListeners) = 2 /\ Cardinality(LiveGlobes) = 1)

\* C12: in my-app, across mounts, unmounts and immediate replays of the effect,
\* after unmount no App resize listener is left and every globe created is
\* destroyed; from the setup effect's run until unmount there are exactly two
\* App resize listeners, both of the latest run, and exactly one live globe,
\* the latest; between the first render and the setup effect there are none.
CleanupUndoesSetup ==
    (variant = "myapp") =>
        /\ pc = "unmounted" => (AppListeners = {} /\ LiveGlobes = {})
        /\ pc = "rendered" => (AppListeners = {} /\ LiveGlobes = {})
        /\ pc = "ready" =>
              /\ AppListeners = {<<"handleResize", effectRuns>>, <<"onResizeVH", effectRuns>>}
              /\ Cardinality(AppListeners) = 2
              /\ LiveGlobes = {effectRuns}

SecondMountReplayed ==
    /\ variant = "myapp" /\ pc = "ready" /\ mounts = 2 /\ last = "replay"
    /\ Cardinality(destroyed) = 3

\* C13: in my-app, whenever App is mounted and globus is not null, globus is
\* the globe of the latest setup run, that globe is not destroyed, and
\* osmRef and satRef are the two layers that globe was built with.
GlobusIsLatestLiveGlobe ==
    (variant = "myapp" /\ Mounted /\ globus # Null) =>
        /\ globus = GlobeObj(effectRuns)
        /\ effectRuns \notin destroyed
        /\ osmRef = LayerObj("OSM", effectRuns)
        /\ satRef = LayerObj("SAT", effectRuns)
        /\ globeLayers = {osmRef.provider, satRef.provider}

SwitchedAfterReplay ==
    /\ variant = "myapp" /\ pc = "ready" /\ mounts = 1 /\ effectRuns = 2
    /\ last = "pressBase" /\ base = "SAT" /\ Displayed = {"SAT"}

=============================================================================
